---- MODULE Spec2Model ----
(***************************************************************************)
(* Model of core/lib/l1_contract_interface/src/i_executor/structures/      *)
(* commit_batch_info.rs: the ABI encoding of `CommitBatchInfo`.            *)
(*                                                                         *)
(* A process owns one finalized batch (`l1_batch_with_metadata`) and one   *)
(* optional, shared KZG trusted setup (`kzg_settings`).  Callers build     *)
(* `CommitBatchInfo` views over them (`new`), consume them with            *)
(* `into_token`, and may call the associated function `from_token`.        *)
(* A panic of `unwrap()` is modelled as the outcome "panic".               *)
(***************************************************************************)
EXTENDS Integers, Sequences, FiniteSets, TLC

VARIABLES
    l1_batch_with_metadata,  \* the caller-owned L1BatchWithMetadata
    kzg_settings,            \* the process-wide Option<Arc<KzgSettings>>
    calls,                   \* per call slot: the CommitBatchInfo and its result
    decoded                  \* the last from_token call: its input and result

vars == <<l1_batch_with_metadata, kzg_settings, calls, decoded>>

(***************************************************************************)
(* Bounds of the model.                                                    *)
(***************************************************************************)
\* number of call slots that encode concurrently
NumCalls == 2
\* longest precomputed pubdata payload, in bytes
MaxPubdataLen == 5
\* canonical blob size in bytes (126976 in the node, scaled down)
ZK_SYNC_BYTES_PER_BLOB == 2
\* length of a blob commitment artifact in bytes (32 in the node, scaled down)
BlobCommitmentLen == 2
\* length of a per-chunk pubdata commitment artifact (144 in the node, scaled down)
PubdataCommitmentLen == 3
\* length of a hash in bytes (32 in the node, scaled down)
H256Len == 4

Calls == 1..NumCalls

(***************************************************************************)
(* Option<T>                                                               *)
(***************************************************************************)
None == [some |-> FALSE]
Some(x) == [some |-> TRUE, value |-> x]

(***************************************************************************)
(* ethabi::Token                                                           *)
(***************************************************************************)
Uint(n) == [type |-> "Uint", value |-> n]
FixedBytes(b) == [type |-> "FixedBytes", value |-> b]
Bytes(b) == [type |-> "Bytes", value |-> b]
Array(ts) == [type |-> "Array", value |-> ts]
Tuple(ts) == [type |-> "Tuple", value |-> ts]

\* U256::from of an unsigned 32/64-bit integer: a lossless widening, so the
\* value is kept (every header number of the model is far below 2^32)
U256_from(n) == n

(***************************************************************************)
(* PubdataDA and the pubdata source bytes                                  *)
(***************************************************************************)
PubdataDA == {"Calldata", "Blobs"}
PUBDATA_SOURCE_CALLDATA == 0
PUBDATA_SOURCE_BLOBS == 1

(***************************************************************************)
(* ProtocolVersionId (zksync_types): ordered version tags and the two      *)
(* boundary predicates.                                                    *)
(***************************************************************************)
Version9 == 9
Version17 == 17
Version18 == 18
Version20 == 20
Version21 == 21

\* the versions batches carry here: both sides of each boundary (Version9 is
\* reached through the fallback of a batch with no version)
ProtocolVersionIds == {Version17, Version18, Version20, Version21}

last_potentially_undefined == Version9
is_pre_boojum(v) == v <= Version17
is_pre_1_4_2(v) == v < Version21

(***************************************************************************)
(* Byte-string helpers                                                     *)
(***************************************************************************)
RECURSIVE Flatten(_)
Flatten(ss) == IF ss = <<>> THEN <<>> ELSE Head(ss) \o Flatten(Tail(ss))

RECURSIVE SumBytes(_)
SumBytes(s) == IF s = <<>> THEN 0 ELSE Head(s) + SumBytes(Tail(s))

\* u32::to_be_bytes
U32BE(n) ==
    << (n \div 16777216) % 256, (n \div 65536) % 256, (n \div 256) % 256, n % 256 >>

\* H256 and H256::as_bytes().to_vec(): the bytes of a hash
H256(seed) == [i \in 1..H256Len |-> (seed + i) % 256]
as_bytes_to_vec(h) == [i \in 1..Len(h) |-> h[i]]

(***************************************************************************)
(* Collaborators from zksync_types and the kzg module.  Their code is not  *)
(* part of this file; they are deterministic, pure functions of their      *)
(* arguments.                                                              *)
(***************************************************************************)
\* serialize_commitments / pre_boojum_serialize_commitments: a big-endian
\* 4-byte count followed by every log's fixed-size serialization
serialize_commitments(logs) == U32BE(Len(logs)) \o Flatten(logs)
pre_boojum_serialize_commitments(logs) == U32BE(Len(logs)) \o Flatten(logs)

\* L1BatchHeader::priority_ops_onchain_data_hash: a hash over the
\* priority-operation records of the header
priority_ops_onchain_data_hash(header) ==
    H256(100 + SumBytes(Flatten(header.priority_ops_onchain_data)))

\* L1BatchWithMetadata::construct_pubdata: the payload rebuilt from the
\* header: counted logs, counted and length-prefixed messages, counted and
\* length-prefixed bytecodes
construct_pubdata(batch) ==
    U32BE(Len(batch.header.l2_to_l1_logs)) \o Flatten(batch.header.l2_to_l1_logs)
    \o U32BE(Len(batch.header.l2_to_l1_messages))
    \o Flatten([i \in 1..Len(batch.header.l2_to_l1_messages) |->
            U32BE(Len(batch.header.l2_to_l1_messages[i]))
            \o batch.header.l2_to_l1_messages[i]])
    \o U32BE(Len(batch.raw_published_factory_deps))
    \o Flatten([i \in 1..Len(batch.raw_published_factory_deps) |->
            U32BE(Len(batch.raw_published_factory_deps[i]))
            \o batch.raw_published_factory_deps[i]])

\* a digest of a payload under a trusted setup, standing for the polynomial
\* commitment arithmetic
RECURSIVE Digest(_, _)
Digest(acc, bytes) ==
    IF bytes = <<>> THEN acc
    ELSE Digest((acc * 31 + Head(bytes) + 1) % 251, Tail(bytes))

\* KzgInfo::new(kzg_settings, pubdata)
KzgInfo_new(settings, pubdata) ==
    [commitment |-> Digest((settings.trusted_setup + Len(pubdata)) % 251, pubdata)]
\* KzgInfo::to_blob_commitment: the artifact for a whole payload
to_blob_commitment(info) ==
    [i \in 1..BlobCommitmentLen |-> (info.commitment + 17 * i) % 256]
\* KzgInfo::to_pubdata_commitment: the artifact for one blob-sized chunk
to_pubdata_commitment(info) ==
    [i \in 1..PubdataCommitmentLen |-> (3 * info.commitment + 29 * i + 1) % 256]

\* chunks as chunks_exact would cut them: the remainder is dropped
RECURSIVE chunks_exact(_, _)
chunks_exact(bytes, size) ==
    IF Len(bytes) < size THEN <<>>
    ELSE <<SubSeq(bytes, 1, size)>>
            \o chunks_exact(SubSeq(bytes, size + 1, Len(bytes)), size)

\* <[u8]>::chunks(size): consecutive pieces of `size` bytes, the last one
\* holding the remainder; no piece for an empty slice
RECURSIVE chunks(_, _)
chunks(bytes, size) ==
    IF bytes = <<>> THEN <<>>
    ELSE IF Len(bytes) <= size THEN <<bytes>>
    ELSE <<SubSeq(bytes, 1, size)>> \o chunks(SubSeq(bytes, size + 1, Len(bytes)), size)

(***************************************************************************)
(* L1BatchWithMetadata values the upstream pipeline can hand over.         *)
(***************************************************************************)
Payload(n) == [i \in 1..n |-> 200 + i]

MkBatch(protocol_version, initial_writes, repeated_writes, bootloader, events, pubdata_input) ==
    [header |->
        [number |-> 7,
         timestamp |-> 1000,
         l1_tx_count |-> 3,
         protocol_version |-> protocol_version,
         priority_ops_onchain_data |-> << <<1, 2>>, <<3>> >>,
         l2_to_l1_logs |-> << <<1, 2>> >>,
         l2_to_l1_messages |-> << <<7>>, <<8, 9>> >>,
         system_logs |-> << <<3, 4>>, <<5, 6>> >>,
         pubdata_input |-> pubdata_input],
     metadata |->
        [rollup_last_leaf_index |-> 42,
         merkle_root_hash |-> H256(1),
         l2_l1_merkle_root |-> H256(2),
         initial_writes_compressed |-> initial_writes,
         repeated_writes_compressed |-> repeated_writes,
         bootloader_initial_content_commitment |-> bootloader,
         events_queue_commitment |-> events],
     raw_published_factory_deps |-> << <<5, 6>> >>]

Batches ==
    { MkBatch(pv, iw, rw, bl, ev, pi) :
        pv \in {None} \cup {Some(v) : v \in ProtocolVersionIds},
        iw \in {None, Some(<<10, 11>>)},
        rw \in {None, Some(<<12>>)},
        bl \in {None, Some(H256(3))},
        ev \in {None, Some(H256(4))},
        pi \in {None} \cup {Some(Payload(n)) : n \in 0..MaxPubdataLen} }

KzgSettings == [trusted_setup |-> 7]

(***************************************************************************)
(* CommitBatchInfo                                                         *)
(***************************************************************************)
\* CommitBatchInfo::new
new(batch, pubdata_da, settings) ==
    [l1_batch_with_metadata |-> batch,
     pubdata_da |-> pubdata_da,
     kzg_settings |-> settings]

\* base_tokens falling back to the latest version instead
base_tokens_protocol_version_latest(self) ==
    IF self.l1_batch_with_metadata.header.protocol_version.some
    THEN self.l1_batch_with_metadata.header.protocol_version.value
    ELSE Version21

\* the protocol version base_tokens classifies
base_tokens_protocol_version(self) ==
    IF self.l1_batch_with_metadata.header.protocol_version.some
    THEN self.l1_batch_with_metadata.header.protocol_version.value
    ELSE last_potentially_undefined

\* the pre-boojum layout: 12 fields
pre_boojum_tokens(self) ==
    LET b == self.l1_batch_with_metadata IN
    << Uint(U256_from(b.header.number)),
       Uint(U256_from(b.header.timestamp)),
       Uint(U256_from(b.metadata.rollup_last_leaf_index)),
       FixedBytes(as_bytes_to_vec(b.metadata.merkle_root_hash)),
       Uint(U256_from(b.header.l1_tx_count)),
       FixedBytes(as_bytes_to_vec(b.metadata.l2_l1_merkle_root)),
       FixedBytes(as_bytes_to_vec(priority_ops_onchain_data_hash(b.header))),
       Bytes(b.metadata.initial_writes_compressed.value),
       Bytes(b.metadata.repeated_writes_compressed.value),
       Bytes(pre_boojum_serialize_commitments(b.header.l2_to_l1_logs)),
       Array([i \in 1..Len(b.header.l2_to_l1_messages) |->
                Bytes(b.header.l2_to_l1_messages[i])]),
       Array([i \in 1..Len(b.raw_published_factory_deps) |->
                Bytes(b.raw_published_factory_deps[i])]) >>

\* the boojum layout: 9 base fields
boojum_tokens(self) ==
    LET b == self.l1_batch_with_metadata IN
    << Uint(U256_from(b.header.number)),
       Uint(U256_from(b.header.timestamp)),
       Uint(U256_from(b.metadata.rollup_last_leaf_index)),
       FixedBytes(as_bytes_to_vec(b.metadata.merkle_root_hash)),
       Uint(U256_from(b.header.l1_tx_count)),
       FixedBytes(as_bytes_to_vec(priority_ops_onchain_data_hash(b.header))),
       FixedBytes(as_bytes_to_vec(b.metadata.bootloader_initial_content_commitment.value)),
       FixedBytes(as_bytes_to_vec(b.metadata.events_queue_commitment.value)),
       Bytes(serialize_commitments(b.header.system_logs)) >>

\* base_tokens unwrapping the fields of both layouts
base_tokens_requires_all(self) ==
    LET m == self.l1_batch_with_metadata.metadata IN
    IF /\ m.initial_writes_compressed.some /\ m.repeated_writes_compressed.some
       /\ m.bootloader_initial_content_commitment.some /\ m.events_queue_commitment.some
    THEN [panic |-> FALSE,
          tokens |-> IF is_pre_boojum(base_tokens_protocol_version(self))
                     THEN pre_boojum_tokens(self) ELSE boojum_tokens(self)]
    ELSE [panic |-> TRUE, tokens |-> <<>>]

\* base_tokens with unwrap_or_default() on the events-queue commitment
base_tokens_defaults_events(self) ==
    LET m == self.l1_batch_with_metadata.metadata
        defaulted == [self EXCEPT
            !.l1_batch_with_metadata.metadata.events_queue_commitment =
                Some([i \in 1..H256Len |-> 0])]
    IN
    IF is_pre_boojum(base_tokens_protocol_version(self))
    THEN IF m.initial_writes_compressed.some /\ m.repeated_writes_compressed.some
         THEN [panic |-> FALSE, tokens |-> pre_boojum_tokens(self)]
         ELSE [panic |-> TRUE, tokens |-> <<>>]
    ELSE IF m.bootloader_initial_content_commitment.some
         THEN [panic |-> FALSE,
               tokens |-> IF m.events_queue_commitment.some
                          THEN boojum_tokens(self) ELSE boojum_tokens(defaulted)]
         ELSE [panic |-> TRUE, tokens |-> <<>>]

\* CommitBatchInfo::base_tokens; `panic` is a failed unwrap()
base_tokens(self) ==
    LET m == self.l1_batch_with_metadata.metadata IN
    IF is_pre_boojum(base_tokens_protocol_version(self))
    THEN IF m.initial_writes_compressed.some /\ m.repeated_writes_compressed.some
         THEN [panic |-> FALSE, tokens |-> pre_boojum_tokens(self)]
         ELSE [panic |-> TRUE, tokens |-> <<>>]
    ELSE IF m.bootloader_initial_content_commitment.some /\ m.events_queue_commitment.some
         THEN [panic |-> FALSE, tokens |-> boojum_tokens(self)]
         ELSE [panic |-> TRUE, tokens |-> <<>>]

\* results of a call: a returned token, or a panic; kzg_new_calls counts the
\* KzgInfo::new invocations the call made
Returned(token, n) == [outcome |-> "ok", token |-> token, kzg_new_calls |-> n]
Panicked(n) == [outcome |-> "panic", kzg_new_calls |-> n]

\* the protocol version into_token classifies
into_token_protocol_version(self) ==
    IF self.l1_batch_with_metadata.header.protocol_version.some
    THEN self.l1_batch_with_metadata.header.protocol_version.value
    ELSE last_potentially_undefined

\* the pubdata always reconstructed, the precomputed payload ignored
pubdata_of_ignores_input(self) == construct_pubdata(self.l1_batch_with_metadata)

\* pubdata_input.clone().unwrap_or(construct_pubdata())
pubdata_of(self) ==
    IF self.l1_batch_with_metadata.header.pubdata_input.some
    THEN self.l1_batch_with_metadata.header.pubdata_input.value
    ELSE construct_pubdata(self.l1_batch_with_metadata)

\* the Calldata arm without the blob commitment
calldata_result_without_commitment(settings, pubdata) ==
    <<PUBDATA_SOURCE_CALLDATA>> \o pubdata

\* PubdataDA::Calldata arm: source byte, pubdata, blob commitment
calldata_result(settings, pubdata) ==
    <<PUBDATA_SOURCE_CALLDATA>> \o pubdata
        \o to_blob_commitment(KzgInfo_new(settings, pubdata))

\* PubdataDA::Blobs arm: source byte, the commitments of the chunks in order
blobs_result(settings, pubdata) ==
    LET blobs == chunks(pubdata, ZK_SYNC_BYTES_PER_BLOB) IN
    <<PUBDATA_SOURCE_BLOBS>>
        \o Flatten([i \in 1..Len(blobs) |->
                to_pubdata_commitment(KzgInfo_new(settings, blobs[i]))])

\* into_token without the early return of the pre-boojum layout
into_token_no_early_return(self) ==
    LET base == base_tokens(self)
        protocol_version == into_token_protocol_version(self)
        pubdata == pubdata_of(self)
    IN
    IF base.panic THEN Panicked(0)
    ELSE IF is_pre_1_4_2(protocol_version)
    THEN Returned(Tuple(Append(base.tokens, Bytes(pubdata))), 0)
    ELSE IF self.pubdata_da = "Calldata"
    THEN IF self.kzg_settings.some
         THEN Returned(Tuple(Append(base.tokens,
                  Bytes(calldata_result(self.kzg_settings.value, pubdata)))), 1)
         ELSE Panicked(0)
    ELSE IF self.kzg_settings.some \/ chunks(pubdata, ZK_SYNC_BYTES_PER_BLOB) = <<>>
         THEN Returned(Tuple(Append(base.tokens,
                  Bytes(blobs_result(self.kzg_settings.value, pubdata)))),
                  Len(chunks(pubdata, ZK_SYNC_BYTES_PER_BLOB)))
         ELSE Panicked(0)

\* into_token unwrapping the setup handle before it branches on 1.4.2
into_token_eager_setup(self) ==
    LET base == base_tokens(self)
        protocol_version == into_token_protocol_version(self)
        pubdata == pubdata_of(self)
    IN
    IF base.panic THEN Panicked(0)
    ELSE IF is_pre_boojum(protocol_version) THEN Returned(Tuple(base.tokens), 0)
    ELSE IF ~self.kzg_settings.some THEN Panicked(0)
    ELSE IF is_pre_1_4_2(protocol_version)
    THEN Returned(Tuple(Append(base.tokens, Bytes(pubdata))), 0)
    ELSE IF self.pubdata_da = "Calldata"
    THEN Returned(Tuple(Append(base.tokens,
             Bytes(calldata_result(self.kzg_settings.value, pubdata)))), 1)
    ELSE Returned(Tuple(Append(base.tokens,
             Bytes(blobs_result(self.kzg_settings.value, pubdata)))),
             Len(chunks(pubdata, ZK_SYNC_BYTES_PER_BLOB)))

\* Tokenizable::into_token
into_token(self) ==
    LET base == base_tokens(self)
        protocol_version == into_token_protocol_version(self)
        pubdata == pubdata_of(self)
    IN
    IF base.panic THEN Panicked(0)
    ELSE IF is_pre_boojum(protocol_version) THEN Returned(Tuple(base.tokens), 0)
    ELSE IF is_pre_1_4_2(protocol_version)
    THEN Returned(Tuple(Append(base.tokens, Bytes(pubdata))), 0)
    ELSE IF self.pubdata_da = "Calldata"
    THEN IF self.kzg_settings.some
         THEN Returned(Tuple(Append(base.tokens,
                  Bytes(calldata_result(self.kzg_settings.value, pubdata)))), 1)
         ELSE Panicked(0)
    ELSE IF self.kzg_settings.some \/ chunks(pubdata, ZK_SYNC_BYTES_PER_BLOB) = <<>>
         THEN Returned(Tuple(Append(base.tokens,
                  Bytes(blobs_result(self.kzg_settings.value, pubdata)))),
                  Len(chunks(pubdata, ZK_SYNC_BYTES_PER_BLOB)))
         ELSE Panicked(0)

\* from_token decoding the tuples it recognises
from_token_decodes_tuples(token) ==
    IF token.type = "Tuple" /\ Len(token.value) \in {10, 12}
    THEN [ok |-> TRUE, value |-> token.value]
    ELSE [ok |-> FALSE,
          error |-> [kind |-> "Api",
                     inner |-> [kind |-> "Decoder", message |-> "Not implemented"]]]

\* Tokenizable::from_token
from_token(token) ==
    [ok |-> FALSE,
     error |-> [kind |-> "Api",
                inner |-> [kind |-> "Decoder", message |-> "Not implemented"]]]

(***************************************************************************)
(* The state machine                                                       *)
(***************************************************************************)
Idle == [pc |-> "idle"]

\* the CommitBatchInfo of call slot c: it borrows the batch
Self(c) == new(l1_batch_with_metadata, calls[c].pubdata_da, calls[c].kzg_settings)

Init ==
    /\ l1_batch_with_metadata \in Batches
    /\ kzg_settings \in {None, Some(KzgSettings)}
    /\ calls = [c \in Calls |-> Idle]
    /\ decoded = None

\* a caller builds a CommitBatchInfo over the batch and the shared setup
New(c, pubdata_da) ==
    /\ calls[c].pc \in {"idle", "returned"}
    /\ calls' = [calls EXCEPT ![c] =
            [pc |-> "constructed",
             pubdata_da |-> new(l1_batch_with_metadata, pubdata_da, kzg_settings).pubdata_da,
             kzg_settings |-> new(l1_batch_with_metadata, pubdata_da, kzg_settings).kzg_settings]]
    /\ UNCHANGED <<l1_batch_with_metadata, kzg_settings, decoded>>

\* into_token taking the precomputed pubdata out of the batch
IntoToken_takes_pubdata(c) ==
    /\ calls[c].pc = "constructed"
    /\ calls' = [calls EXCEPT ![c] =
            [pc |-> "returned",
             pubdata_da |-> calls[c].pubdata_da,
             kzg_settings |-> calls[c].kzg_settings,
             result |-> into_token(Self(c))]]
    /\ l1_batch_with_metadata' =
            [l1_batch_with_metadata EXCEPT !.header.pubdata_input = None]
    /\ UNCHANGED <<kzg_settings, decoded>>

\* the caller consumes it: into_token(self)
IntoToken(c) ==
    /\ calls[c].pc = "constructed"
    /\ calls' = [calls EXCEPT ![c] =
            [pc |-> "returned",
             pubdata_da |-> calls[c].pubdata_da,
             kzg_settings |-> calls[c].kzg_settings,
             result |-> into_token(Self(c))]]
    /\ UNCHANGED <<l1_batch_with_metadata, kzg_settings, decoded>>

\* tokens of arbitrary shape handed to from_token
SampleToken(k) ==
    CASE k = 1 -> Uint(U256_from(0))
      [] OTHER -> Tuple(<<>>)

\* Tokenizable::from_token on a token of arbitrary shape
FromToken(token) ==
    /\ decoded' = Some([token |-> token, result |-> from_token(token)])
    /\ UNCHANGED <<l1_batch_with_metadata, kzg_settings, calls>>

\* Tokenizable::from_token on a token that into_token returned
FromReturnedToken(c) ==
    /\ calls[c].pc = "returned"
    /\ calls[c].result.outcome = "ok"
    /\ FromToken(calls[c].result.token)

Next ==
    \/ \E c \in Calls, da \in PubdataDA : New(c, da)
    \/ \E c \in Calls : IntoToken(c)
    \/ \E k \in 1..2 : FromToken(SampleToken(k))
    \/ \E c \in Calls : FromReturnedToken(c)

Spec == Init /\ [][Next]_vars

(***************************************************************************)
(* Vocabulary of the properties                                            *)
(***************************************************************************)
Batch == l1_batch_with_metadata
ReturnedCalls == {c \in Calls : calls[c].pc = "returned"}
Ok(c) == calls[c].result.outcome = "ok"
Fields(c) == calls[c].result.token.value
LastField(c) == Fields(c)[Len(Fields(c))]

\* the version the batch is classified by: its own, or the fallback
EffectiveVersion ==
    IF Batch.header.protocol_version.some
    THEN Batch.header.protocol_version.value
    ELSE last_potentially_undefined

PreBoojum == is_pre_boojum(EffectiveVersion)
Boojum == ~is_pre_boojum(EffectiveVersion) /\ is_pre_1_4_2(EffectiveVersion)
Post142 == ~is_pre_boojum(EffectiveVersion) /\ ~is_pre_1_4_2(EffectiveVersion)

\* the metadata fields the active layout branch requires are populated
RequiredPopulated ==
    IF PreBoojum
    THEN /\ Batch.metadata.initial_writes_compressed.some
         /\ Batch.metadata.repeated_writes_compressed.some
    ELSE /\ Batch.metadata.bootloader_initial_content_commitment.some
         /\ Batch.metadata.events_queue_commitment.some

\* the pubdata payload: the precomputed one if present, else the reconstructed one
ExpectedPubdata ==
    IF Batch.header.pubdata_input.some
    THEN Batch.header.pubdata_input.value
    ELSE construct_pubdata(Batch)

OtherDA(da) == IF da = "Calldata" THEN "Blobs" ELSE "Calldata"

\* C1: a pre-boojum batch with its compressed write sets present encodes to
\* a tuple of exactly 12 fields, and to the same tuple under either DA mode.
C1_PreBoojumTwelveFields ==
    \A c \in ReturnedCalls :
        (PreBoojum /\ RequiredPopulated) =>
            /\ Ok(c)
            /\ calls[c].result.token.type = "Tuple"
            /\ Len(Fields(c)) = 12
            /\ LastField(c).type = "Array"
            /\ calls[c].result =
                 into_token(new(Batch, OtherDA(calls[c].pubdata_da), calls[c].kzg_settings))

C1_Witness ==
    \E c \in ReturnedCalls :
        /\ PreBoojum /\ RequiredPopulated
        /\ calls[c].pubdata_da = "Blobs"
        /\ Ok(c)

\* C2: a batch at or above boojum and below 1.4.2 encodes to 10 fields, the
\* last being exactly the pubdata payload (precomputed if present, else
\* reconstructed) with no mode byte, the same under either DA mode.
C2_Pre142RawPubdata ==
    \A c \in ReturnedCalls :
        (Boojum /\ Ok(c)) =>
            /\ calls[c].result.token.type = "Tuple"
            /\ Len(Fields(c)) = 10
            /\ LastField(c) = Bytes(ExpectedPubdata)
            /\ calls[c].result =
                 into_token(new(Batch, OtherDA(calls[c].pubdata_da), calls[c].kzg_settings))

C2_Witness ==
    \E c \in ReturnedCalls :
        /\ Boojum /\ Ok(c)
        /\ Batch.header.pubdata_input.some
        /\ Len(Batch.header.pubdata_input.value) > 0

\* C3: at or above 1.4.2 under Calldata the tuple has 10 fields and the last
\* is 0x00 ++ pubdata ++ blob commitment of that same pubdata.
C3_CalldataPayload ==
    \A c \in ReturnedCalls :
        (Post142 /\ calls[c].pubdata_da = "Calldata" /\ Ok(c)) =>
            /\ Len(Fields(c)) = 10
            /\ LastField(c).type = "Bytes"
            /\ LastField(c).value =
                 <<0>> \o ExpectedPubdata
                    \o to_blob_commitment(
                          KzgInfo_new(calls[c].kzg_settings.value, ExpectedPubdata))

C3_Witness ==
    \E c \in ReturnedCalls :
        /\ Post142 /\ calls[c].pubdata_da = "Calldata" /\ Ok(c)
        /\ Batch.header.pubdata_input.some
        /\ Len(Batch.header.pubdata_input.value) > 0

\* the k-th consecutive piece of the pubdata, of the canonical blob size but
\* for the last, which holds the remainder
NumChunks ==
    (Len(ExpectedPubdata) + ZK_SYNC_BYTES_PER_BLOB - 1) \div ZK_SYNC_BYTES_PER_BLOB
ChunkEnd(k) ==
    IF k * ZK_SYNC_BYTES_PER_BLOB < Len(ExpectedPubdata)
    THEN k * ZK_SYNC_BYTES_PER_BLOB ELSE Len(ExpectedPubdata)
Chunk(k) == SubSeq(ExpectedPubdata, (k - 1) * ZK_SYNC_BYTES_PER_BLOB + 1, ChunkEnd(k))

\* C4: at or above 1.4.2 under Blobs the tuple has 10 fields and the last is
\* 0x01 followed by the per-chunk commitments in chunk order, one for each
\* of the ceil(len / blob size) chunks, without the pubdata bytes.
C4_BlobsPayload ==
    \A c \in ReturnedCalls :
        (Post142 /\ calls[c].pubdata_da = "Blobs" /\ Ok(c)) =>
            /\ Len(Fields(c)) = 10
            /\ LastField(c).type = "Bytes"
            /\ Len(LastField(c).value) = 1 + NumChunks * PubdataCommitmentLen
            /\ LastField(c).value[1] = 1
            /\ calls[c].result.kzg_new_calls = NumChunks
            /\ \A k \in 1..NumChunks :
                 SubSeq(LastField(c).value,
                        2 + (k - 1) * PubdataCommitmentLen,
                        1 + k * PubdataCommitmentLen)
                 = to_pubdata_commitment(
                        KzgInfo_new(calls[c].kzg_settings.value, Chunk(k)))

\* a payload of 2.5 blob sizes: three chunks, full, full, half
C4_Witness ==
    \E c \in ReturnedCalls :
        /\ Post142 /\ calls[c].pubdata_da = "Blobs" /\ Ok(c)
        /\ 2 * Len(ExpectedPubdata) = 5 * ZK_SYNC_BYTES_PER_BLOB
        /\ NumChunks = 3
        /\ Len(Chunk(1)) = ZK_SYNC_BYTES_PER_BLOB
        /\ Len(Chunk(2)) = ZK_SYNC_BYTES_PER_BLOB
        /\ 2 * Len(Chunk(3)) = ZK_SYNC_BYTES_PER_BLOB

\* the error of the unsupported decode direction
NotImplemented ==
    [kind |-> "Api", inner |-> [kind |-> "Decoder", message |-> "Not implemented"]]

\* C5: from_token returns the decoder error "Not implemented" for every
\* input token, and never a value.
C5_DecodeAlwaysFails ==
    decoded.some =>
        /\ decoded.value.result.ok = FALSE
        /\ decoded.value.result.error = NotImplemented

\* from_token was handed a 10-field tuple that into_token returned
C5_Witness ==
    /\ decoded.some
    /\ decoded.value.token.type = "Tuple"
    /\ Len(decoded.value.token.value) = 10
    /\ decoded.value.result.ok = FALSE

\* C6 as stated: with the metadata fields of the active branch populated,
\* into_token returns a tuple for every version, DA mode and setup handle,
\* present or absent.
C6_FailsOnlyOnMetadata ==
    \A c \in ReturnedCalls : RequiredPopulated => Ok(c)

\* C6 amended: with the metadata fields of the active branch populated, and
\* the setup handle present whenever the version is at or above 1.4.2,
\* into_token returns a tuple.
C6_FailsOnlyOnMetadataOrSetup ==
    \A c \in ReturnedCalls :
        (RequiredPopulated /\ (Post142 => calls[c].kzg_settings.some)) =>
            /\ Ok(c)
            /\ calls[c].result.token.type = "Tuple"

C6_Witness ==
    \E c \in ReturnedCalls :
        /\ RequiredPopulated /\ Post142
        /\ calls[c].kzg_settings.some
        /\ ~Batch.metadata.initial_writes_compressed.some
        /\ Ok(c)

\* the batch with the fields only the other layout branch requires populated
OtherBranchPopulated ==
    IF PreBoojum
    THEN [Batch EXCEPT
            !.metadata.bootloader_initial_content_commitment = Some(H256(3)),
            !.metadata.events_queue_commitment = Some(H256(4))]
    ELSE [Batch EXCEPT
            !.metadata.initial_writes_compressed = Some(<<10, 11>>),
            !.metadata.repeated_writes_compressed = Some(<<12>>)]

\* C7: when a metadata field the active branch requires is absent,
\* into_token panics under every DA mode and returns no token; the absence
\* of a field only the other branch requires changes nothing.
C7_RequiredAbsentPanics ==
    \A c \in ReturnedCalls :
        /\ ~RequiredPopulated =>
              /\ calls[c].result.outcome = "panic"
              /\ "token" \notin DOMAIN calls[c].result
        /\ calls[c].result =
              into_token(new(OtherBranchPopulated, calls[c].pubdata_da,
                             calls[c].kzg_settings))

C7_Witness ==
    \E c \in ReturnedCalls :
        /\ ~PreBoojum
        /\ Batch.metadata.bootloader_initial_content_commitment.some
        /\ ~Batch.metadata.events_queue_commitment.some
        /\ calls[c].kzg_settings.some
        /\ calls[c].result.outcome = "panic"

C9_SetupNotRequiredBefore142 ==
    \A c \in ReturnedCalls :
        is_pre_1_4_2(EffectiveVersion) =>
            /\ calls[c].result.kzg_new_calls = 0
            /\ calls[c].result = into_token(new(Batch, calls[c].pubdata_da, None))
            /\ calls[c].result =
                 into_token(new(Batch, calls[c].pubdata_da, Some(KzgSettings)))
            /\ RequiredPopulated => Ok(c)

C9_Witness ==
    \E c \in ReturnedCalls :
        /\ Boojum
        /\ ~calls[c].kzg_settings.some
        /\ Ok(c)
        /\ Len(Fields(c)) = 10

\* the batch with the effective version set explicitly
ExplicitVersion == [Batch EXCEPT !.header.protocol_version = Some(EffectiveVersion)]

\* C10: a batch with no protocol version encodes exactly as the same batch
\* with the fallback version set; the tuple has 12 fields when the
\* effective version is pre-boojum and 10 otherwise.
C10_UnsetVersionFallback ==
    \A c \in ReturnedCalls :
        /\ calls[c].result =
              into_token(new(ExplicitVersion, calls[c].pubdata_da, calls[c].kzg_settings))
        /\ Ok(c) => Len(Fields(c)) = (IF PreBoojum THEN 12 ELSE 10)
        /\ (/\ ~Batch.header.protocol_version.some
            /\ RequiredPopulated
            /\ (Post142 => calls[c].kzg_settings.some)) => Ok(c)

C10_Witness ==
    \E c \in ReturnedCalls :
        /\ ~Batch.header.protocol_version.some
        /\ Ok(c)
        /\ Len(Fields(c)) \in {10, 12}

====
